---- MODULE Spec2Model ----
(***************************************************************************)
(* Model of the maelstrom CLI (`maelstrom fc init`, `maelstrom fc          *)
(* register`): the secrets file on disk, the in-memory payload of one      *)
(* command invocation, and the Optimism contracts the register command     *)
(* reads and writes (IdGateway / IdRegistry / KeyGateway / KeyRegistry).   *)
(*                                                                         *)
(* A command invocation is a process p.  Every `await` of the source and   *)
(* every filesystem call of the secrets write is one action, so that a     *)
(* kill of the process can fall between any two of them.                   *)
(***************************************************************************)
EXTENDS Integers, Sequences, FiniteSets, TLC

\* ------------------------------------------------------------------ bounds
\* Command invocations (init or register) in one behaviour.
MaxCmds == 3
\* Wallet keys that `init` can draw (two per init: custody, recovery).
MaxKeys == 4
\* Largest custody balance, in the unit the prices are given in.
MaxBal == 1
\* Hours the clock may advance in one behaviour.
MaxTicks == 3

\* --------------------------------------------------------- program constants
ExpectedChainId == 10
Confirmations == 2
ZeroAddress == 0
\* The lifetime of a signed key request, in seconds.
Hour == 3600

\* The process ids of invocations that may exist at a time.
Procs == {1, 2}
\* The processes of the sequential specifications: one invocation at a time.
SeqProcs == {1}
Addrs == 1..MaxKeys
\* The prices IdGateway.price(0) may quote.
Prices == {1, 2}

VARIABLES
    fs,          \* path -> file content
    run,         \* process -> the state of its command invocation
    cmds,        \* invocations started so far
    nextKey,     \* next fresh wallet key (Wallet.createRandom)
    nextSigner,  \* next fresh ed25519 key (crypto.generateKeyPairSync)
    chainId,     \* what provider.getNetwork() reports
    validator,   \* KeyRegistry.validators(1, 1)
    price,       \* IdGateway.price(0)
    idOf,        \* IdRegistry.idOf: address -> fid (0: none)
    balance,     \* address -> balance
    keys,        \* KeyRegistry: the <<fid, key>> pairs added
    nextFid,     \* IdRegistry id counter
    now,         \* the time in seconds (Date.now() / 1000, block.timestamp)
    txs          \* transactions in flight, in order of submission: those
                 \* not yet mined, and the mined one a run is waiting on

chainVars == <<now, chainId, validator, price, idOf, balance, keys, nextFid, txs>>
vars == <<fs, run, cmds, nextKey, nextSigner, now, chainId, validator, price,
          idOf, balance, keys, nextFid, txs>>

\* ------------------------------------------------------------ secrets file
\* The JSON object of the secrets file.  A field the object does not have is
\* 0 / FALSE / "" (all falsy in the source's tests).
EmptyPayload ==
    [kind |-> "", name |-> "", createdAt |-> FALSE,
     custodyAddress |-> 0, recoveryAddress |-> 0,
     custodyPrivateKey |-> 0, recoveryPrivateKey |-> 0,
     appSignerKeyType |-> "", appSignerPublicKeyBase64url |-> 0,
     appSignerPrivateKeyBase64url |-> 0, appSignerCreatedAt |-> FALSE,
     fid |-> 0, fidRegisteredAt |-> FALSE, appSignerAddedAt |-> FALSE]

\* Wallet: the address of a private key.
AddressOf(k) == k

\* The payload `init` builds.
InitPayload(c, r) ==
    [EmptyPayload EXCEPT !.kind = "farcaster-keys", !.name = "JohnTitor",
                         !.createdAt = TRUE,
                         !.custodyAddress = AddressOf(c),
                         !.recoveryAddress = AddressOf(r),
                         !.custodyPrivateKey = c, !.recoveryPrivateKey = r]

\* A key field that holds a JSON value other than a string (a number, an
\* object, ...), and one that holds a non-empty string that is no private key.
NotAString == -1
Malformed == -2

\* File contents: no file, a file cut short by a kill (not well-formed JSON),
\* a complete JSON object, a file that is not well-formed JSON, or a
\* well-formed JSON value that is no object (null, a number, a string).  The
\* mode is that of a file this program created unless stated otherwise.
Absent == [st |-> "absent", data |-> EmptyPayload, mode |-> "none"]
Partial == [st |-> "partial", data |-> EmptyPayload, mode |-> "0600"]
Full(d) == [st |-> "full", data |-> d, mode |-> "0600"]
Garbled == [st |-> "garbled", data |-> EmptyPayload, mode |-> "0644"]
NotObject == [st |-> "value", data |-> EmptyPayload, mode |-> "0644"]

\* A record somebody else wrote: `kind`, and the two key fields.
Foreign(kind, c, r) ==
    [Full([EmptyPayload EXCEPT !.kind = kind, !.custodyPrivateKey = c,
                               !.recoveryPrivateKey = r])
       EXCEPT !.mode = "0644"]

\* What the secrets path may hold that `init` did not write.
ForeignFiles ==
    {Garbled, NotObject,
     Foreign("", Malformed, Malformed),
     Foreign("other", Malformed, Malformed),
     Foreign("farcaster-keys", 0, Malformed),
     Foreign("farcaster-keys", NotAString, Malformed),
     Foreign("farcaster-keys", Malformed, 0),
     Foreign("farcaster-keys", Malformed, NotAString),
     Foreign("farcaster-keys", Malformed, Malformed)}

SecretsPath == "secrets"
Paths == {"secrets", "tmp1", "tmp2"}

\* A bug: the data is written straight to the target path.
TmpPathInPlace(p) == SecretsPath

\* `${filePath}.tmp-${process.pid}`
TmpPath(p) == IF p = 1 THEN "tmp1" ELSE "tmp2"

\* A bug: the temporary file is created with the default mode.
CreateModeDefault(exists, old) == IF exists THEN old ELSE "0644"

\* open(tmp, 'w', 0o600): the mode is given to a file that is created (the
\* umask can only take bits away); a file that exists keeps its mode.
CreateMode(exists, old) == IF exists THEN old ELSE "0600"

\* A bug: the existence check is dropped.
MayWriteAlways(exists, force) == TRUE

\* writeSecretsFile's guard: it throws when the file exists and force is off.
MayWrite(exists, force) == ~(exists /\ ~force)

\* ------------------------------------------------------------ configuration
\* A flag that was not given, an environment variable that is not set.
Undefined == "undefined"

\* The values a flag or an environment variable may have: none, the empty
\* string, blanks, an address or URL, and one with blanks around it.
Strings == {Undefined, "", " ", "v", " v "}

\* String.prototype.trim
Trim(s) == CASE s = " " -> "" [] s = " v " -> "v" [] OTHER -> s

\* JavaScript's `a || b` on strings: b when a is undefined or empty.
Or(a, b) == IF a \in {Undefined, ""} THEN b ELSE a

DEFAULT_RPC == "https://mainnet.optimism.io"
DEFAULT_ID_GATEWAY == "0x00000000fc25870c6ed6b6c7e41fb078b7656f69"
DEFAULT_KEY_GATEWAY == "0x00000000fc56947c7e7183f8ca4b62398caadf0b"

\* The three settings as flags (--rpc, --id-gateway, --key-gateway) or as
\* environment variables (OP_RPC_URL, FC_ID_GATEWAY, FC_KEY_GATEWAY).
NoSettings == [rpc |-> Undefined, idGateway |-> Undefined,
               keyGateway |-> Undefined]
Settings == [rpc : Strings, idGateway : Strings, keyGateway : Strings]

\* getOptimismRpcUrl(args)
getOptimismRpcUrl(args, env) ==
    LET fromArgs == Trim(Or(args.rpc, ""))
        fromEnv == Trim(Or(env.rpc, ""))
    IN  IF fromArgs # "" THEN fromArgs
        ELSE IF fromEnv # "" THEN fromEnv
        ELSE DEFAULT_RPC

\* `(args.idGateway || process.env.FC_ID_GATEWAY || DEFAULT_ID_GATEWAY).trim()`
\* and the same expression for the key gateway.
GatewayAddress(flag, env, default) == Trim(Or(Or(flag, env), default))

\* ------------------------------------------------------------ an invocation
\* A bug: the deadline is the signing time.
DeadlineAtSigning(t) == t

\* `BigInt(Math.floor(Date.now() / 1000) + 60 * 60)`
Deadline(t) == t + Hour

\* The SignedKeyRequest a run signs and encodes as metadata: the fid, the
\* custody address that signs, the signer key and the deadline.  The
\* signature stands for itself: `signedAt` and `signedIn` are the time at
\* which and the invocation in which custody.signTypedData produced it.
SignedKeyRequest(f, a, k, t, n) ==
    [requestFid |-> f, requestSigner |-> a, key |-> k,
     deadline |-> Deadline(t), signedAt |-> t, signedIn |-> n]

\* No request: nothing was signed.
NoRequest ==
    [requestFid |-> 0, requestSigner |-> 0, key |-> 0,
     deadline |-> 0, signedAt |-> 0, signedIn |-> 0]

IdleRun ==
    [cmd |-> "none", pc |-> "idle", ret |-> "", force |-> FALSE,
     noSigner |-> FALSE, payload |-> EmptyPayload, before |-> Absent,
     prev |-> Absent, bal |-> 0, price |-> 0, fid |-> 0, fid0 |-> 0,
     regConfs |-> 0, addConfs |-> 0, nReg |-> 0, nAdd |-> 0, calls |-> <<>>,
     out |-> <<>>, outcome |-> "", code |-> 0,
     args |-> NoSettings, env |-> NoSettings,
     rpcUrl |-> "", idGatewayAddress |-> "", keyGatewayAddress |-> "",
     request |-> NoRequest, addAt |-> 0]

Ended(p) == run[p].pc \in {"idle", "exit"}

\* A bug: the handler reports the error and exits 0.
ThrowTextExitZero(r, err, text) ==
    [r EXCEPT !.pc = "exit", !.outcome = err, !.code = 0,
              !.out = Append(r.out, text)]

\* main().catch: `Error: ${err.message}` goes to stderr, the process exits 1.
ThrowText(r, err, text) ==
    [r EXCEPT !.pc = "exit", !.outcome = err, !.code = 1,
              !.out = Append(r.out, text)]

\* An error whose message the program composes, or one of a library call
\* that was given no secret.
Throw(r, err) == ThrowText(r, err, "Error")

\* return from main: the process exits 0.
Return(r) == [r EXCEPT !.pc = "exit", !.outcome = "Done", !.code = 0]

\* usage(exitCode): the usage text goes to stdout, the process exits.
Usage(r, exitCode) ==
    [r EXCEPT !.cmd = "usage", !.pc = "exit", !.code = exitCode,
              !.out = Append(r.out, "Usage")]

\* main's dispatch on argv: help or no argument, the namespace, the command.
Dispatch(empty, help, ns, cmd) ==
    IF empty \/ help THEN "usage0"
    ELSE IF ns # "fc" THEN "usage1"
    ELSE IF cmd \in {"init", "register"} THEN cmd
    ELSE "usage1"

\* `(args.name || 'JohnTitor').trim()` is empty: --name was given blanks.
MissingName(name) == name = "blank"

\* Command lines that are no init and no register: no argument, a help flag
\* (whatever else there is), another namespace, another command or none.
UsageArgvs ==
    {[empty |-> TRUE, help |-> FALSE, ns |-> "", cmd |-> ""],
     [empty |-> FALSE, help |-> TRUE, ns |-> "fc", cmd |-> "register"],
     [empty |-> FALSE, help |-> FALSE, ns |-> "other", cmd |-> "init"],
     [empty |-> FALSE, help |-> FALSE, ns |-> "fc", cmd |-> "other"],
     [empty |-> FALSE, help |-> FALSE, ns |-> "fc", cmd |-> ""]}
Names == {"default", "blank"}

\* A variant: the write starts from the file as it is at that time, and
\* keeps the fid of the file when the run has none.
BeginWriteReloaded(r, ret) ==
    [r EXCEPT !.pc = "w_open", !.ret = ret, !.prev = fs[SecretsPath],
              !.payload.fid = IF r.payload.fid = 0
                              THEN fs[SecretsPath].data.fid
                              ELSE r.payload.fid]

\* The call of writeSecretsFile / overwriteSecretsFile after its guard: the
\* three filesystem calls follow, then the caller goes on at `ret`.
BeginWrite(r, ret) ==
    [r EXCEPT !.pc = "w_open", !.ret = ret, !.prev = fs[SecretsPath]]

Init ==
    /\ fs \in {[f \in Paths |-> IF f = SecretsPath THEN c ELSE Absent] :
                 c \in {Absent} \cup ForeignFiles}
    /\ run = [p \in SeqProcs |-> IdleRun]
    /\ cmds = 0
    /\ nextKey = 1
    /\ nextSigner = 1
    /\ now = 0
    /\ chainId \in {ExpectedChainId, 1}
    /\ validator \in {ZeroAddress, 1}
    /\ price \in Prices
    /\ idOf = [a \in Addrs |-> 0]
    /\ balance = [a \in Addrs |-> 0]
    /\ keys = {}
    /\ nextFid = 1
    /\ txs = <<>>

\* ------------------------------------------------- the secrets write (fs)
\* fs.writeFileSync(tmp, ...) opens the temporary file with flag 'w': it is
\* created or truncated.
FsOpenTmp(p) ==
    /\ run[p].pc = "w_open"
    /\ fs' = [fs EXCEPT ![TmpPath(p)] =
                 [Partial EXCEPT !.mode =
                    CreateMode(fs[TmpPath(p)].st # "absent", fs[TmpPath(p)].mode)]]
    /\ run' = [run EXCEPT ![p].pc = "w_data"]
    /\ UNCHANGED <<cmds, nextKey, nextSigner, chainVars>>

\* ... and writes JSON.stringify(obj) to it.
FsWriteTmp(p) ==
    /\ run[p].pc = "w_data"
    /\ fs' = [fs EXCEPT ![TmpPath(p)] =
                 [Full(run[p].payload) EXCEPT !.mode = fs[TmpPath(p)].mode]]
    /\ run' = [run EXCEPT ![p].pc = "w_rename"]
    /\ UNCHANGED <<cmds, nextKey, nextSigner, chainVars>>

\* fs.renameSync(tmp, filePath)
FsRename(p) ==
    /\ run[p].pc = "w_rename"
    /\ fs' = IF TmpPath(p) = SecretsPath THEN fs
             ELSE [fs EXCEPT ![SecretsPath] = fs[TmpPath(p)],
                             ![TmpPath(p)] = Absent]
    /\ run' = [run EXCEPT ![p].pc = "w_chmod"]
    /\ UNCHANGED <<cmds, nextKey, nextSigner, chainVars>>

\* fs.chmodSync(filePath, 0o600); the caller continues.
FsChmod(p) ==
    /\ run[p].pc = "w_chmod"
    /\ fs' = [fs EXCEPT ![SecretsPath].mode = "0600"]
    /\ run' = [run EXCEPT ![p].pc = run[p].ret]
    /\ UNCHANGED <<cmds, nextKey, nextSigner, chainVars>>

\* ------------------------------------------------------------------ usage
\* `maelstrom` is invoked with no argument, with -h or --help, with a
\* namespace other than fc, or with a command other than init and register.
StartUsage(p) ==
    /\ Ended(p)
    /\ cmds < MaxCmds
    /\ \E a \in UsageArgvs :
         LET d == Dispatch(a.empty, a.help, a.ns, a.cmd)
             r == [IdleRun EXCEPT !.outcome = IF a.empty \/ a.help THEN "Help"
                                              ELSE "UsageError"]
         IN  run' = [run EXCEPT ![p] =
                       IF d = "usage0" THEN Usage(r, 0) ELSE Usage(r, 1)]
    /\ cmds' = cmds + 1
    /\ UNCHANGED <<fs, nextKey, nextSigner, chainVars>>

\* ------------------------------------------------------------------- init
\* `maelstrom fc init [--force]` is invoked.
StartInit(p) ==
    /\ Ended(p)
    /\ cmds < MaxCmds
    /\ nextKey + 1 <= MaxKeys
    /\ Dispatch(FALSE, FALSE, "fc", "init") = "init"
    /\ \E force \in BOOLEAN, name \in Names :
         LET r == [IdleRun EXCEPT !.cmd = "init", !.pc = "init_gen",
                                  !.force = force,
                                  !.before = fs[SecretsPath]]
         IN  run' = [run EXCEPT ![p] =
                       IF MissingName(name) THEN Throw(r, "MissingName")
                       ELSE r]
    /\ cmds' = cmds + 1
    /\ UNCHANGED <<fs, nextKey, nextSigner, chainVars>>

\* Two Wallet.createRandom() calls and the payload.
InitGenerate(p) ==
    /\ run[p].pc = "init_gen"
    /\ run' = [run EXCEPT ![p].payload = InitPayload(nextKey, nextKey + 1),
                          ![p].pc = "init_write"]
    /\ nextKey' = nextKey + 2
    /\ UNCHANGED <<fs, cmds, nextSigner, chainVars>>

\* writeSecretsFile(secretsPath, payload, force): the existence guard.
InitWrite(p) ==
    /\ run[p].pc = "init_write"
    /\ run' = [run EXCEPT ![p] =
                 IF MayWrite(fs[SecretsPath].st # "absent", run[p].force)
                 THEN BeginWrite(run[p], "init_report")
                 ELSE Throw(run[p], "AlreadyExists")]
    /\ UNCHANGED <<fs, cmds, nextKey, nextSigner, chainVars>>

\* The addresses are printed; main returns.
InitReport(p) ==
    /\ run[p].pc = "init_report"
    /\ run' = [run EXCEPT ![p] =
                 Return([run[p] EXCEPT !.out = run[p].out \o
                     <<"Created", "SecretsFile", "CustodyAddress",
                       "RecoveryAddress", "Next">>])]
    /\ UNCHANGED <<fs, cmds, nextKey, nextSigner, chainVars>>

\* --------------------------------------------------------------- register
\* A bug: only the kind is checked.
assertFarcasterKeysKindOnly(c) ==
    IF c.st # "full" THEN "object"
    ELSE IF c.data.kind # "farcaster-keys" THEN "kind"
    ELSE "ok"

\* assertFarcasterKeys on what JSON.parse returned: the first check that
\* fails, or "ok".
assertFarcasterKeys(c) ==
    IF c.st # "full" THEN "object"
    ELSE IF c.data.kind # "farcaster-keys" THEN "kind"
    ELSE IF c.data.custodyPrivateKey \in {0, NotAString} THEN "custodyPrivateKey"
    ELSE IF c.data.recoveryPrivateKey \in {0, NotAString} THEN "recoveryPrivateKey"
    ELSE "ok"

\* new Wallet(key) throws on a string that is no private key.
WalletThrows(k) == k = Malformed

\* What the message of the error new Wallet(key) throws may carry: a fixed
\* text, or the value it was given.
WalletErrorTexts == {"Error", "ErrorWithValue"}

\* A bug: the stored signer is not looked at.
hasSignerIgnored(d) == FALSE

\* hasSigner: all three signer fields are truthy.
hasSigner(d) ==
    /\ d.appSignerKeyType # ""
    /\ d.appSignerPublicKeyBase64url # 0
    /\ d.appSignerPrivateKeyBase64url # 0

\* A bug: the addition timestamp is set together with the key.
WithSignerAdded(d, k) ==
    [d EXCEPT !.appSignerKeyType = "ed25519",
              !.appSignerPublicKeyBase64url = k,
              !.appSignerPrivateKeyBase64url = k,
              !.appSignerCreatedAt = TRUE,
              !.appSignerAddedAt = TRUE]

\* A bug: --no-signer does not stop the key generation.
GeneratesSignerAnyway(ns, d) == ~hasSigner(d)

\* `if (!args.noSigner) { ... if (!hasSigner) {`: a signer keypair is
\* generated when --no-signer was not given and the payload has none.
GeneratesSigner(ns, d) == ~ns /\ ~hasSigner(d)

\* The four signer fields generateEd25519Signer's result is copied to.
WithSigner(d, k) ==
    [d EXCEPT !.appSignerKeyType = "ed25519",
              !.appSignerPublicKeyBase64url = k,
              !.appSignerPrivateKeyBase64url = k,
              !.appSignerCreatedAt = TRUE]

\* payload.fid = fid.toString(); payload.fidRegisteredAt = now
WithFid(d, f) == [d EXCEPT !.fid = f, !.fidRegisteredAt = TRUE]

\* A bug: the timestamp is never recorded.
WithAddedAtDropped(d) == d

\* payload.appSignerAddedAt = now
WithAddedAt(d) == [d EXCEPT !.appSignerAddedAt = TRUE]

\* A bug: the test is dropped, every run registers.
NeedsRegisterAlways(f) == TRUE

\* `if (fid === 0n)`: step 1 registers only when the address has no fid.
NeedsRegister(f) == f = 0

\* A bug: only an empty balance stops the run (the check of the earlier,
\* read-only version of the command).
HasFundsNonZero(b, pr) == b # 0

\* `if (bal < price) throw`
HasFunds(b, pr) == ~(b < pr)

\* A bug: the chain id is printed and not checked.
OnExpectedChainUnchecked(c) == TRUE

\* `if (chainId !== 10n) throw`
OnExpectedChain(c) == c = ExpectedChainId

\* A bug: the zero address is taken for a validator.
ValidatorMissingIgnored(v) == FALSE

\* `if (!validatorAddress || validatorAddress === '0x00...00') throw`
ValidatorMissing(v) == v = ZeroAddress

\* A bug: the re-read fid is not checked.
StillUnsetIgnored(f) == FALSE

\* `if (fid === 0n) throw` after the registration was confirmed.
StillUnset(f) == f = 0

\* A bug: one confirmation is taken for two.
WaitDoneEarly(t) == t.confs >= 1

\* tx.wait(2) resolves (or rejects) once the receipt has 2 confirmations.
WaitDone(t) == t.confs >= Confirmations

\* The custody wallet of a run: new Wallet(payload.custodyPrivateKey).
Custody(p) == AddressOf(run[p].payload.custodyPrivateKey)

\* IdGateway.register(recovery) {value: price} as the chain executes it: it
\* reverts when the sender already owns a fid or cannot pay.
CanRegister(a) == idOf[a] = 0 /\ balance[a] >= price

\* KeyGateway.add(1, key, 1, metadata) as the chain executes it: it reverts
\* when the sender owns no fid, the signed request names another fid, or the
\* key is already in the KeyRegistry for that fid.
CanAdd(a, f, k) == f # 0 /\ idOf[a] = f /\ <<f, k>> \notin keys

\* The SignedKeyRequestValidator's check of the deadline in the metadata, at
\* the time the call is executed.
Validates(m) == ~(now > m.deadline)

\* A transaction as broadcast; `owner` is the process that holds its handle
\* (0 once that process is gone).
RegisterTx(p, a) ==
    [kind |-> "register", from |-> a, fid |-> 0, key |-> 0,
     metadata |-> NoRequest, st |-> "pending", confs |-> 0, owner |-> p]

AddTx(p, a, f, k, m) ==
    [kind |-> "add", from |-> a, fid |-> f, key |-> k,
     metadata |-> m, st |-> "pending", confs |-> 0, owner |-> p]

\* The transaction whose handle process p awaits.
Awaited(p) == txs[CHOOSE i \in 1..Len(txs) : txs[i].owner = p]

\* The transactions in flight once p's handle is resolved.
Resolved(p) == SelectSeq(txs, LAMBDA t : t.owner # p)

\* The transactions in flight once process p is gone: a transaction of p's
\* that is not yet mined stays in the pool, and nobody waits for it.
Released(p) ==
    SelectSeq([i \in 1..Len(txs) |->
                 IF txs[i].owner = p THEN [txs[i] EXCEPT !.owner = 0]
                 ELSE txs[i]],
              LAMBDA t : t.owner # 0 \/ t.st = "pending")

\* What a line of output carries besides fixed text: the fields of the
\* payload, the arguments and the chain values it interpolates.
Carries(m) ==
    CASE m = "Created" -> {"name"}
      [] m = "SecretsFile" -> {"secretsPath"}
      [] m = "CustodyAddress" -> {"custodyAddress"}
      [] m = "RecoveryAddress" -> {"recoveryAddress"}
      [] m = "Rpc" -> {"rpcUrl"}
      [] m = "ChainId" -> {"chainId"}
      [] m = "Balance" -> {"balance"}
      [] m \in {"FidExists", "FID", "Done"} -> {"fid"}
      [] m = "Tx" -> {"txHash"}
      [] m = "Error" -> {"secretsPath", "kind", "price", "publicKeyLength",
                         "chainCall"}
      [] m = "ErrorWithValue" -> {"custodyPrivateKey", "recoveryPrivateKey"}
      [] OTHER -> {}

Called(r, c) == [r EXCEPT !.calls = Append(r.calls, c)]
Printed(r, m) == [r EXCEPT !.out = Append(r.out, m)]

\* The run calls idGateway['register(address)'].
CallRegister(r) == Called([r EXCEPT !.nReg = r.nReg + 1], "register")

\* The run calls keyGateway.add.
CallAdd(r) == Called([r EXCEPT !.nAdd = r.nAdd + 1, !.addAt = now], "add")

\* `maelstrom fc register [--no-signer]` is invoked.
StartRegister(p) ==
    /\ Ended(p)
    /\ cmds < MaxCmds
    /\ Dispatch(FALSE, FALSE, "fc", "register") = "register"
    /\ \E ns \in BOOLEAN, name \in Names :
         LET r == [IdleRun EXCEPT !.cmd = "register", !.pc = "reg_load",
                                  !.noSigner = ns,
                                  !.before = fs[SecretsPath]]
         IN  run' = [run EXCEPT ![p] =
                       IF MissingName(name) THEN Throw(r, "MissingName")
                       ELSE r]
    /\ cmds' = cmds + 1
    /\ UNCHANGED <<fs, nextKey, nextSigner, chainVars>>

\* existsSync, readJson, assertFarcasterKeys, the two wallets, and the signer
\* keypair that is generated when the payload has none and --no-signer was
\* not given.  `before` is the file as this run read it.
RegLoad(p) ==
    /\ run[p].pc = "reg_load"
    /\ LET f == fs[SecretsPath]
           r == [run[p] EXCEPT !.before = f]
           parsed == f.st \notin {"absent", "partial", "garbled"}
           usable == /\ parsed
                     /\ assertFarcasterKeys(f) = "ok"
                     /\ ~WalletThrows(f.data.custodyPrivateKey)
                     /\ ~WalletThrows(f.data.recoveryPrivateKey)
           gen == usable /\ GeneratesSigner(r.noSigner, f.data)
       IN  /\ \E text \in WalletErrorTexts :
                 run' = [run EXCEPT ![p] =
                   IF f.st = "absent" THEN Throw(r, "NotFound")
                   ELSE IF ~parsed THEN Throw(r, "ParseError")
                   ELSE IF assertFarcasterKeys(f) # "ok"
                        THEN Throw(r, "ValidationError")
                   ELSE IF ~usable THEN ThrowText(r, "InvalidKey", text)
                   ELSE IF gen
                        THEN BeginWrite(
                               [r EXCEPT !.payload = WithSigner(f.data, nextSigner)],
                               "reg_header")
                   ELSE [r EXCEPT !.payload = f.data, !.pc = "reg_header"]]
           /\ nextSigner' = IF gen THEN nextSigner + 1 ELSE nextSigner
    /\ UNCHANGED <<fs, cmds, nextKey, chainVars>>

\* The header lines, printed before the first await.
RegHeader(p) ==
    /\ run[p].pc = "reg_header"
    /\ run' = [run EXCEPT ![p].pc = "reg_network",
                          ![p].out = run[p].out \o
                                       <<"Header", "SecretsFile", "Rpc">>]
    /\ UNCHANGED <<fs, cmds, nextKey, nextSigner, chainVars>>

\* `await provider.getNetwork()` and the chain id check.
RegGetNetwork(p) ==
    /\ run[p].pc = "reg_network"
    /\ LET r == Called(Printed(run[p], "ChainId"), "getNetwork")
       IN  run' = [run EXCEPT ![p] =
                   IF ~OnExpectedChain(chainId) THEN Throw(r, "WrongChain")
                   ELSE [r EXCEPT !.pc = "reg_balance",
                                  !.out = r.out \o <<"CustodyAddress",
                                                     "RecoveryAddress">>]]
    /\ UNCHANGED <<fs, cmds, nextKey, nextSigner, chainVars>>

\* `await provider.getBalance(custody.address)`
RegGetBalance(p) ==
    /\ run[p].pc = "reg_balance"
    /\ run' = [run EXCEPT ![p] =
                 Printed(Called([run[p] EXCEPT !.bal = balance[Custody(p)],
                                               !.pc = "reg_idreg"],
                                "getBalance"), "Balance")]
    /\ UNCHANGED <<fs, cmds, nextKey, nextSigner, chainVars>>

\* `await idGateway.idRegistry()`
RegIdRegistry(p) ==
    /\ run[p].pc = "reg_idreg"
    /\ run' = [run EXCEPT ![p] =
                 Called([run[p] EXCEPT !.pc = "reg_idof"], "idRegistry")]
    /\ UNCHANGED <<fs, cmds, nextKey, nextSigner, chainVars>>

\* Step 1: `let fid = await idRegistry.idOf(custody.address)` and the branch.
RegIdOf(p) ==
    /\ run[p].pc = "reg_idof"
    /\ LET f == idOf[Custody(p)]
           r == Called([run[p] EXCEPT !.fid = f, !.fid0 = f], "idOf")
       IN  run' = [run EXCEPT ![p] =
                   IF NeedsRegister(f) THEN [r EXCEPT !.pc = "reg_price"]
                   ELSE Printed([r EXCEPT !.pc = "reg_step2"], "FidExists")]
    /\ UNCHANGED <<fs, cmds, nextKey, nextSigner, chainVars>>

\* `await idGateway.price(0)` and the balance check.
RegPrice(p) ==
    /\ run[p].pc = "reg_price"
    /\ LET r == Called([run[p] EXCEPT !.price = price], "price")
       IN  run' = [run EXCEPT ![p] =
                   IF HasFunds(r.bal, r.price)
                   THEN Printed([r EXCEPT !.pc = "reg_submit"], "Registering")
                   ELSE Throw(r, "InsufficientFunds")]
    /\ UNCHANGED <<fs, cmds, nextKey, nextSigner, chainVars>>

\* `await idGateway['register(address)'](recovery.address, {value: price})`:
\* the provider estimates gas first, and the call throws when the
\* transaction would revert; otherwise it is broadcast.
RegSubmit(p) ==
    /\ run[p].pc = "reg_submit"
    /\ LET r == CallRegister(run[p])
           ok == CanRegister(Custody(p))
       IN  /\ run' = [run EXCEPT ![p] =
                   IF ok
                   THEN Printed([r EXCEPT !.pc = "reg_wait"], "Tx")
                   ELSE Throw(r, "ChainError")]
           /\ txs' = IF ok THEN Append(txs, RegisterTx(p, Custody(p))) ELSE txs
    /\ UNCHANGED <<fs, cmds, nextKey, nextSigner, now, chainId, validator, price,
                   idOf, balance, keys, nextFid>>

\* `await tx.wait(2)`: rejects when the transaction reverted.
RegWait(p) ==
    /\ run[p].pc = "reg_wait"
    /\ WaitDone(Awaited(p))
    /\ LET r == [run[p] EXCEPT !.regConfs = Awaited(p).confs]
       IN  run' = [run EXCEPT ![p] =
                   IF Awaited(p).st = "reverted" THEN Throw(r, "ChainError")
                   ELSE [r EXCEPT !.pc = "reg_reread"]]
    /\ txs' = Resolved(p)
    /\ UNCHANGED <<fs, cmds, nextKey, nextSigner, now, chainId, validator, price,
                   idOf, balance, keys, nextFid>>

\* `fid = await idRegistry.idOf(custody.address)` again; the fid goes to the
\* payload and overwriteSecretsFile is called.
RegReread(p) ==
    /\ run[p].pc = "reg_reread"
    /\ LET f == idOf[Custody(p)]
           r == Called([run[p] EXCEPT !.fid = f], "idOf")
       IN  run' = [run EXCEPT ![p] =
                   IF StillUnset(f) THEN Throw(r, "RegistrationInconsistency")
                   ELSE BeginWrite([r EXCEPT !.payload = WithFid(r.payload, f)],
                                   "reg_report_fid")]
    /\ UNCHANGED <<fs, cmds, nextKey, nextSigner, chainVars>>

\* `   FID: ...` is printed.
RegReportFid(p) ==
    /\ run[p].pc = "reg_report_fid"
    /\ run' = [run EXCEPT ![p] =
                 Printed([run[p] EXCEPT !.pc = "reg_step2"], "FID")]
    /\ UNCHANGED <<fs, cmds, nextKey, nextSigner, chainVars>>

\* Step 2: --no-signer ends the run here.
RegStep2(p) ==
    /\ run[p].pc = "reg_step2"
    /\ run' = [run EXCEPT ![p] =
                 IF run[p].noSigner
                 THEN Return(Printed(run[p], "SkipSigner"))
                 ELSE [run[p] EXCEPT !.pc = "reg_keyreg"]]
    /\ UNCHANGED <<fs, cmds, nextKey, nextSigner, chainVars>>

\* `await keyGateway.keyRegistry()`
RegKeyRegistry(p) ==
    /\ run[p].pc = "reg_keyreg"
    /\ run' = [run EXCEPT ![p] =
                 Called([run[p] EXCEPT !.pc = "reg_validators"], "keyRegistry")]
    /\ UNCHANGED <<fs, cmds, nextKey, nextSigner, chainVars>>

\* `await keyRegistry.validators(1, 1)` and the zero-address check.
RegValidators(p) ==
    /\ run[p].pc = "reg_validators"
    /\ LET r == Called(run[p], "validators")
       IN  run' = [run EXCEPT ![p] =
                   IF ValidatorMissing(validator) THEN Throw(r, "ValidatorNotFound")
                   ELSE [r EXCEPT !.pc = "reg_sign"]]
    /\ UNCHANGED <<fs, cmds, nextKey, nextSigner, chainVars>>

\* The deadline, `await custody.signTypedData(...)`, the metadata tuple, and
\* "2) Adding signer via KeyGateway...".
RegSign(p) ==
    /\ run[p].pc = "reg_sign"
    /\ run' = [run EXCEPT ![p] =
                 Printed(Called([run[p] EXCEPT
                                   !.pc = "reg_submit_add",
                                   !.request = SignedKeyRequest(
                                       run[p].fid, Custody(p),
                                       run[p].payload.appSignerPublicKeyBase64url,
                                       now, cmds)],
                                "signTypedData"), "AddingSigner")]
    /\ UNCHANGED <<fs, cmds, nextKey, nextSigner, chainVars>>

\* `await keyGateway.add(1, keyBytes, 1, metadata)`: as for register, the
\* call throws when gas estimation finds that the transaction would revert.
RegSubmitAdd(p) ==
    /\ run[p].pc = "reg_submit_add"
    /\ LET r == CallAdd(run[p])
           k == r.payload.appSignerPublicKeyBase64url
           ok == CanAdd(Custody(p), r.fid, k) /\ Validates(r.request)
       IN  /\ run' = [run EXCEPT ![p] =
                   IF ok
                   THEN Printed([r EXCEPT !.pc = "reg_wait_add"], "Tx")
                   ELSE Throw(r, "ChainError")]
           /\ txs' = IF ok
                     THEN Append(txs, AddTx(p, Custody(p), r.fid, k, r.request))
                     ELSE txs
    /\ UNCHANGED <<fs, cmds, nextKey, nextSigner, now, chainId, validator, price,
                   idOf, balance, keys, nextFid>>

\* `await addTx.wait(2)`
RegWaitAdd(p) ==
    /\ run[p].pc = "reg_wait_add"
    /\ WaitDone(Awaited(p))
    /\ LET r == [run[p] EXCEPT !.addConfs = Awaited(p).confs]
       IN  run' = [run EXCEPT ![p] =
                   IF Awaited(p).st = "reverted" THEN Throw(r, "ChainError")
                   ELSE [r EXCEPT !.pc = "reg_persist_added"]]
    /\ txs' = Resolved(p)
    /\ UNCHANGED <<fs, cmds, nextKey, nextSigner, now, chainId, validator, price,
                   idOf, balance, keys, nextFid>>

\* payload.appSignerAddedAt is set and overwriteSecretsFile is called.
RegPersistAdded(p) ==
    /\ run[p].pc = "reg_persist_added"
    /\ run' = [run EXCEPT ![p] =
                 BeginWrite([run[p] EXCEPT !.payload = WithAddedAt(run[p].payload)],
                            "reg_done")]
    /\ UNCHANGED <<fs, cmds, nextKey, nextSigner, chainVars>>

\* `Done. FID ... is registered and signer is added onchain.`
RegDone(p) ==
    /\ run[p].pc = "reg_done"
    /\ run' = [run EXCEPT ![p] = Return(Printed(run[p], "Done"))]
    /\ UNCHANGED <<fs, cmds, nextKey, nextSigner, chainVars>>

\* ------------------------------------------------------- interruptions
\* The program points where the run awaits the RPC endpoint.
AwaitsChain(p) ==
    run[p].pc \in {"reg_network", "reg_balance", "reg_idreg", "reg_idof",
                   "reg_price", "reg_submit", "reg_wait", "reg_reread",
                   "reg_keyreg", "reg_validators", "reg_submit_add",
                   "reg_wait_add"}

\* The awaited call rejects (the endpoint is unreachable, rate-limited, ...):
\* the error propagates to main().catch.  A submission that rejects this way
\* was called, and broadcast nothing.
ChainFault(p) ==
    /\ AwaitsChain(p)
    /\ run' = [run EXCEPT ![p] =
                 Throw(IF run[p].pc = "reg_submit" THEN CallRegister(run[p])
                       ELSE IF run[p].pc = "reg_submit_add" THEN CallAdd(run[p])
                       ELSE run[p],
                       "ChainError")]
    /\ txs' = Released(p)
    /\ UNCHANGED <<fs, cmds, nextKey, nextSigner, now, chainId, validator, price,
                   idOf, balance, keys, nextFid>>

\* The process is killed (or the machine stops) between two steps: nothing
\* of it is left but the files.
Crash(p) ==
    /\ ~Ended(p)
    /\ run' = [run EXCEPT ![p] = IdleRun]
    /\ txs' = Released(p)
    /\ UNCHANGED <<fs, cmds, nextKey, nextSigner, now, chainId, validator, price,
                   idOf, balance, keys, nextFid>>

\* --------------------------------------------------------------- the chain
\* The custody address of the secrets file, if there is one.
FileCustody ==
    IF fs[SecretsPath].st = "full"
    THEN {AddressOf(fs[SecretsPath].data.custodyPrivateKey)} \cap Addrs
    ELSE {}

\* Someone sends ETH to the custody address.
Fund ==
    /\ \E a \in FileCustody :
         /\ balance[a] < MaxBal
         /\ balance' = [balance EXCEPT ![a] = balance[a] + 1]
    /\ UNCHANGED <<fs, run, cmds, nextKey, nextSigner, now, chainId, validator,
                   price, idOf, keys, nextFid, txs>>

\* The fid leaves the custody address (IdRegistry.transfer by the custody
\* key, or IdRegistry.recover by the recovery key, outside this tool).
TransferAway ==
    /\ \E a \in FileCustody :
         /\ idOf[a] # 0
         /\ idOf' = [idOf EXCEPT ![a] = 0]
    /\ UNCHANGED <<fs, run, cmds, nextKey, nextSigner, now, chainId, validator,
                   price, balance, keys, nextFid, txs>>

\* A pending transaction is included in a block (1 confirmation) and executed.
ChainMine ==
    \E i \in 1..Len(txs) :
      LET t == txs[i]
          ok == IF t.kind = "register" THEN CanRegister(t.from)
                ELSE CanAdd(t.from, t.fid, t.key) /\ Validates(t.metadata)
      IN  /\ t.st = "pending"
          /\ txs' = IF t.owner = 0
                    THEN SubSeq(txs, 1, i - 1) \o SubSeq(txs, i + 1, Len(txs))
                    ELSE [txs EXCEPT ![i].st = IF ok THEN "ok" ELSE "reverted",
                                     ![i].confs = 1]
          /\ idOf' = IF ok /\ t.kind = "register"
                     THEN [idOf EXCEPT ![t.from] = nextFid] ELSE idOf
          /\ nextFid' = IF ok /\ t.kind = "register" THEN nextFid + 1
                        ELSE nextFid
          /\ balance' = IF ok /\ t.kind = "register"
                        THEN [balance EXCEPT ![t.from] = balance[t.from] - price]
                        ELSE balance
          /\ keys' = IF ok /\ t.kind = "add" THEN keys \cup {<<t.fid, t.key>>}
                     ELSE keys
          /\ UNCHANGED <<fs, run, cmds, nextKey, nextSigner, now, chainId,
                         validator, price>>

\* One more block is built on a mined transaction that a run waits on.
ChainConfirm ==
    \E i \in 1..Len(txs) :
      /\ txs[i].st # "pending"
      /\ txs[i].confs < Confirmations
      /\ txs' = [txs EXCEPT ![i].confs = txs[i].confs + 1]
      /\ UNCHANGED <<fs, run, cmds, nextKey, nextSigner, now, chainId, validator,
                     price, idOf, balance, keys, nextFid>>

\* An hour passes.
Tick ==
    /\ now < MaxTicks * Hour
    /\ now' = now + Hour
    /\ UNCHANGED <<fs, run, cmds, nextKey, nextSigner, chainId, validator,
                   price, idOf, balance, keys, nextFid, txs>>

\* ------------------------------------------- the settings of a register run
\* `maelstrom fc register` is invoked with some flags in some environment.
CfgStart(p) ==
    /\ run[p].pc = "idle"
    /\ \E a \in Settings, e \in Settings :
         run' = [run EXCEPT ![p] =
                   [IdleRun EXCEPT !.cmd = "register", !.pc = "cfg_rpc",
                                   !.args = a, !.env = e]]
    /\ UNCHANGED <<fs, cmds, nextKey, nextSigner, chainVars>>

\* `const rpcUrl = getOptimismRpcUrl(args)`
CfgRpc(p) ==
    /\ run[p].pc = "cfg_rpc"
    /\ run' = [run EXCEPT ![p].rpcUrl = getOptimismRpcUrl(run[p].args, run[p].env),
                          ![p].pc = "cfg_gateways"]
    /\ UNCHANGED <<fs, cmds, nextKey, nextSigner, chainVars>>

\* idGatewayAddress and keyGatewayAddress.
CfgGateways(p) ==
    /\ run[p].pc = "cfg_gateways"
    /\ run' = [run EXCEPT
                 ![p].idGatewayAddress =
                     GatewayAddress(run[p].args.idGateway, run[p].env.idGateway,
                                    DEFAULT_ID_GATEWAY),
                 ![p].keyGatewayAddress =
                     GatewayAddress(run[p].args.keyGateway, run[p].env.keyGateway,
                                    DEFAULT_KEY_GATEWAY),
                 ![p].pc = "cfg_keygateway"]
    /\ UNCHANGED <<fs, cmds, nextKey, nextSigner, chainVars>>

\* Step 2: `if (!keyGatewayAddress) throw`
CfgKeyGateway(p) ==
    /\ run[p].pc = "cfg_keygateway"
    /\ run' = [run EXCEPT ![p] =
                 IF run[p].keyGatewayAddress = ""
                 THEN Throw(run[p], "MissingKeyGateway")
                 ELSE Return(run[p])]
    /\ UNCHANGED <<fs, cmds, nextKey, nextSigner, chainVars>>

\* ------------------------------------------------------- specifications
\* One step of a running invocation.
RunStep(p) ==
    \/ InitGenerate(p) \/ InitWrite(p) \/ InitReport(p)
    \/ FsOpenTmp(p) \/ FsWriteTmp(p) \/ FsRename(p) \/ FsChmod(p)
    \/ RegLoad(p) \/ RegHeader(p) \/ RegGetNetwork(p) \/ RegGetBalance(p) \/ RegIdRegistry(p)
    \/ RegIdOf(p) \/ RegPrice(p) \/ RegSubmit(p) \/ RegWait(p)
    \/ RegReread(p) \/ RegReportFid(p) \/ RegStep2(p) \/ RegKeyRegistry(p)
    \/ RegValidators(p) \/ RegSign(p) \/ RegSubmitAdd(p) \/ RegWaitAdd(p)
    \/ RegPersistAdded(p) \/ RegDone(p)

\* Sequential invocations that may be killed or fail at any await, against a
\* chain on which the fid may also be transferred away.
Next ==
    \/ \E p \in SeqProcs : StartUsage(p) \/ StartInit(p) \/ StartRegister(p)
    \/ \E p \in SeqProcs : RunStep(p)
    \/ \E p \in SeqProcs : Crash(p) \/ ChainFault(p)
    \/ Fund \/ TransferAway \/ ChainMine \/ ChainConfirm

Spec == Init /\ [][Next]_vars

\* Sequential invocations that are never interrupted, against a chain that
\* answers every call and confirms every transaction.
LiveNext ==
    \/ \E p \in SeqProcs : StartUsage(p) \/ StartInit(p) \/ StartRegister(p)
    \/ \E p \in SeqProcs : RunStep(p)
    \/ Fund \/ ChainMine \/ ChainConfirm

LiveSpec ==
    /\ Init
    /\ [][LiveNext]_vars
    /\ WF_vars(\E p \in SeqProcs : RunStep(p))
    /\ WF_vars(ChainMine)
    /\ WF_vars(ChainConfirm)

\* The settings of register runs, for every combination of flags and
\* environment variables.
ConfigNext ==
    \E p \in SeqProcs :
      CfgStart(p) \/ CfgRpc(p) \/ CfgGateways(p) \/ CfgKeyGateway(p)

\* No secrets file yet, and one chain: the settings do not depend on them.
ConfigInit ==
    /\ Init
    /\ fs[SecretsPath] = Absent
    /\ chainId = ExpectedChainId /\ validator # ZeroAddress /\ price = 1

ConfigSpec == ConfigInit /\ [][ConfigNext]_vars

\* ------------------------------------------------------------- properties
File == fs[SecretsPath]
Reg(p) == run[p].cmd = "register"
HasCalled(r, c) == \E i \in 1..Len(r.calls) : r.calls[i] = c
HasPrinted(r, m) == \E i \in 1..Len(r.out) : r.out[i] = m
\* The run has read the secrets file into its payload.
Loaded(r) ==
    /\ r.pc # "reg_load"
    /\ r.outcome \notin {"MissingName", "NotFound", "ParseError",
                          "ValidationError", "InvalidKey"}
Writing(p) == run[p].pc \in {"w_open", "w_data", "w_rename", "w_chmod"}

\* The record `init` wrote, untouched since: no signer and no fid fields.
FreshInit(c) ==
    /\ c.st = "full"
    /\ c.data = InitPayload(c.data.custodyPrivateKey, c.data.recoveryPrivateKey)

\* C1: a register run that starts on a secrets file recording a finished
\* registration (fid and signer-addition timestamp), and that reads the fid
\* as set on a chain whose KeyRegistry holds the signer key for that fid,
\* submits no transaction: neither register nor add is called.
C1_RerunAfterDoneSubmitsNothing ==
    \A p \in DOMAIN run :
      ( /\ Reg(p)
        /\ run[p].before.data.fid # 0
        /\ run[p].before.data.appSignerAddedAt
        /\ run[p].fid0 # 0
        /\ <<run[p].fid0, run[p].payload.appSignerPublicKeyBase64url>> \in keys )
      => run[p].nReg = 0 /\ run[p].nAdd = 0

\* C2: a register run calls IdGateway.register at most once; never when the
\* fid it read for the custody address is non-zero; and exactly once when
\* the fid read is 0 and the balance check passed, as soon as the run is
\* past the submission.
C2_RegisterOnceIffUnset ==
    \A p \in DOMAIN run :
      Reg(p) =>
        /\ run[p].nReg <= 1
        /\ (HasCalled(run[p], "idOf") /\ run[p].fid0 # 0) => run[p].nReg = 0
        /\ ( /\ HasCalled(run[p], "idOf")
             /\ run[p].fid0 = 0
             /\ HasPrinted(run[p], "Registering")
             /\ run[p].pc # "reg_submit" ) => run[p].nReg = 1

C2_Witness ==
    \E p \in DOMAIN run :
      /\ Reg(p) /\ run[p].fid0 = 0 /\ run[p].nReg = 1
      /\ run[p].pc = "exit" /\ run[p].outcome = "Done"

\* C3: once a register run has found the custody address's fid non-zero on
\* chain (step 1 ends with "FID already exists"), the secrets file holds
\* that fid.
C3_ExistingFidPersisted ==
    \A p \in DOMAIN run :
      (Reg(p) /\ HasPrinted(run[p], "FidExists"))
      => File.st = "full" /\ File.data.fid = run[p].fid0

\* C4: a register run that read a price above the balance it read has ended
\* with InsufficientFunds, has called neither register nor add, and has no
\* transaction in flight.
C4_InsufficientFundsNoTx ==
    \A p \in DOMAIN run :
      (Reg(p) /\ HasCalled(run[p], "price") /\ run[p].bal < run[p].price)
      => /\ run[p].pc = "exit"
         /\ run[p].outcome = "InsufficientFunds"
         /\ run[p].nReg = 0 /\ run[p].nAdd = 0
         /\ \A i \in 1..Len(txs) : txs[i].owner # p

C4_Witness ==
    \E p \in DOMAIN run :
      /\ Reg(p) /\ run[p].outcome = "InsufficientFunds"
      /\ run[p].fid0 = 0 /\ run[p].bal < run[p].price

\* A register run without --no-signer on the record init wrote, which read
\* balance 0 and reached the price check.
C5_Case(p) ==
    /\ Reg(p) /\ ~run[p].noSigner
    /\ FreshInit(run[p].before)
    /\ HasCalled(run[p], "price") /\ run[p].bal = 0

\* C5 as stated: in that case the run fails InsufficientFunds and the secrets
\* file is the record init wrote.
C5_FileIsInitRecord ==
    \A p \in DOMAIN run :
      C5_Case(p) =>
        /\ run[p].outcome = "InsufficientFunds"
        /\ File = run[p].before

\* C5 as amended: in that case the run fails InsufficientFunds and the secrets
\* file is the record init wrote plus the four signer key fields (key type,
\* public key, private key, creation timestamp); it has no fid fields and no
\* signer-addition timestamp.
C5_FileIsInitRecordPlusSigner ==
    \A p \in DOMAIN run :
      C5_Case(p) =>
        LET b == run[p].before.data
            k == File.data.appSignerPrivateKeyBase64url
        IN  /\ run[p].outcome = "InsufficientFunds"
            /\ File.st = "full"
            /\ k # 0
            /\ File.data =
                 [b EXCEPT !.appSignerKeyType = "ed25519",
                           !.appSignerPublicKeyBase64url = k,
                           !.appSignerPrivateKeyBase64url = k,
                           !.appSignerCreatedAt = TRUE]
            /\ File.data.fid = 0 /\ ~File.data.fidRegisteredAt
            /\ ~File.data.appSignerAddedAt

C5_Witness ==
    \E p \in DOMAIN run :
      /\ C5_Case(p) /\ run[p].outcome = "InsufficientFunds"
      /\ hasSigner(File.data)

\* The n-th invocation is a register run without --no-signer that starts on
\* an initialised identity whose fid is unset, on the expected chain, with a
\* balance of at least the price and a validator.
C6_Start(n) ==
    /\ cmds = n /\ Reg(1) /\ run[1].pc = "reg_load" /\ ~run[1].noSigner
    /\ File.st = "full" /\ File.data.fid = 0
    /\ File.data.kind = "farcaster-keys"
    /\ File.data.custodyPrivateKey \in Addrs
    /\ File.data.recoveryPrivateKey \in Addrs
    /\ idOf[AddressOf(File.data.custodyPrivateKey)] = 0
    /\ balance[AddressOf(File.data.custodyPrivateKey)] >= price
    /\ chainId = ExpectedChainId /\ validator # ZeroAddress

\* The n-th invocation has reached Done with one register and one add call,
\* and the file holds the fid and the signer-addition timestamp.
C6_Done(n) ==
    /\ cmds = n /\ Reg(1) /\ run[1].pc = "exit" /\ run[1].outcome = "Done"
    /\ run[1].nReg = 1 /\ run[1].nAdd = 1
    /\ File.st = "full"
    /\ File.data.fid # 0 /\ File.data.fid = idOf[Custody(1)]
    /\ File.data.fidRegisteredAt /\ File.data.appSignerAddedAt

\* C6: an uninterrupted register run that starts on an initialised identity
\* with fid unset, sufficient balance, a validator and a chain that confirms
\* its transactions eventually reaches Done, having called register once and
\* add once, with the fid and the signer-addition timestamp in the file.
C6_FreshRunReachesDone ==
    \A n \in 1..MaxCmds : C6_Start(n) ~> C6_Done(n)

C6_Witness == \E n \in 1..MaxCmds : C6_Done(n)

\* C7: in a register run, "FID: n" is printed only when the file holds fid n,
\* and "Done" only when the file holds the signer-addition timestamp; and the
\* fid (the addition timestamp) enters the payload or the file only after the
\* wait on the register (add) transaction returned with 2 confirmations.
C7_ConfirmPersistReport ==
    \A p \in DOMAIN run :
      Reg(p) =>
        LET r == run[p]
            b == run[p].before.data
        IN  /\ HasPrinted(r, "FID")
               => /\ File.st = "full" /\ r.fid # 0
                  /\ File.data.fid = r.fid /\ File.data.fidRegisteredAt
            /\ HasPrinted(r, "Done")
               => File.st = "full" /\ File.data.appSignerAddedAt
            /\ ( \/ Loaded(r) /\ r.payload.fid # b.fid
                 \/ File.data.fid # b.fid )
               => r.regConfs >= Confirmations
            /\ ( \/ Loaded(r) /\ r.payload.appSignerAddedAt # b.appSignerAddedAt
                 \/ File.data.appSignerAddedAt # b.appSignerAddedAt )
               => r.addConfs >= Confirmations

C7_Witness ==
    \E p \in DOMAIN run :
      /\ Reg(p) /\ HasPrinted(run[p], "FID") /\ HasPrinted(run[p], "Done")
      /\ run[p].regConfs = Confirmations /\ run[p].addConfs = Confirmations

\* C8: an init that finds a file and has no --force never gets past the
\* guard of writeSecretsFile: it fails AlreadyExists and the file is what it
\* was; an init with --force that succeeds leaves the file holding its new
\* record, with new keys.
C8_InitRefusesOrReplaces ==
    \A p \in DOMAIN run :
      run[p].cmd = "init" =>
        /\ ( /\ run[p].before.st # "absent" /\ ~run[p].force
             /\ run[p].outcome # "MissingName"
             /\ run[p].pc \notin {"init_gen", "init_write"} )
           => /\ run[p].pc = "exit"
              /\ run[p].outcome = "AlreadyExists"
              /\ File = run[p].before
        /\ run[p].outcome = "AlreadyExists" => File = run[p].before
        /\ (run[p].force /\ run[p].outcome = "Done")
           => /\ File = Full(run[p].payload)
              /\ File.data.fid = 0 /\ ~hasSigner(File.data)
              /\ run[p].before.st = "full"
                 => /\ File.data.custodyPrivateKey
                         # run[p].before.data.custodyPrivateKey
                    /\ File.data.recoveryPrivateKey
                         # run[p].before.data.recoveryPrivateKey

C8_Witness ==
    \E p \in DOMAIN run :
      /\ run[p].cmd = "init" /\ run[p].outcome = "AlreadyExists"
      /\ File.st = "full" /\ File = run[p].before

\* C9: the file at the secrets path is never a partially written record;
\* while a write is between its filesystem calls the path holds what it held
\* when the write began (up to the rename) or the complete new record (after).
C9_TargetNeverPartial ==
    /\ File.st # "partial"
    /\ \A p \in DOMAIN run :
         /\ run[p].pc \in {"w_open", "w_data", "w_rename"}
            => File = run[p].prev
         /\ run[p].pc = "w_chmod" => File = Full(run[p].payload)

\* A process was killed while it wrote the temporary file, and the secrets
\* path holds a complete record.
C9_Witness ==
    /\ run[1].pc = "idle"
    /\ fs[TmpPath(1)].st = "partial"
    /\ File.st = "full"

\* C10: a step never changes a fid the secrets file holds into another fid.
C10_FidNeverReplaced ==
    [][ ( /\ File.st = "full" /\ File.data.fid # 0
          /\ File'.st = "full" /\ File'.data.fid # 0 )
        => File'.data.fid = File.data.fid ]_vars

\* The signer key fields of a record.
SignerFields(d) ==
    <<d.appSignerKeyType, d.appSignerPublicKeyBase64url,
      d.appSignerPrivateKeyBase64url, d.appSignerCreatedAt>>

\* C11: once the secrets file holds a signer key, no step of a register run
\* (finished, failed or killed ones included) generates a signer key or
\* changes the signer key fields of the file.
C11_SignerGeneratedOnce ==
    [][ ( /\ File.st = "full"
          /\ File.data.appSignerPrivateKeyBase64url # 0
          /\ \A p \in DOMAIN run : run[p].cmd # "init" /\ run'[p].cmd # "init" )
        => /\ nextSigner' = nextSigner
           /\ File'.st = "full"
           /\ SignerFields(File'.data) = SignerFields(File.data) ]_vars

\* A register run that may generate a signer started on a file that holds
\* one, and is past the load with that key still in the file.
C11_Witness ==
    \E p \in DOMAIN run :
      /\ Reg(p) /\ ~run[p].noSigner
      /\ run[p].before.data.appSignerPrivateKeyBase64url # 0
      /\ HasCalled(run[p], "getNetwork")
      /\ SignerFields(File.data) = SignerFields(run[p].before.data)

\* C12: a register run to which the network reported a chain id other than
\* 10 has ended with WrongChain; getNetwork is the only call it made: no
\* balance read, no contract read, no register and no add.
C12_WrongChainStopsRun ==
    \A p \in DOMAIN run :
      (Reg(p) /\ HasCalled(run[p], "getNetwork") /\ chainId # ExpectedChainId)
      => /\ run[p].pc = "exit"
         /\ run[p].outcome = "WrongChain"
         /\ run[p].calls = <<"getNetwork">>
         /\ run[p].nReg = 0 /\ run[p].nAdd = 0
         /\ \A i \in 1..Len(txs) : txs[i].owner # p

C12_Witness ==
    \E p \in DOMAIN run :
      /\ Reg(p) /\ run[p].outcome = "WrongChain"
      /\ chainId # ExpectedChainId /\ run[p].calls = <<"getNetwork">>

\* C13: a register run that resolved the validator for key type 1 / metadata
\* type 1 to the zero address has ended with ValidatorNotFound: it signed
\* nothing, called add never, has no transaction in flight, and the
\* signer-addition timestamp of the payload and of the file is what the file
\* held when the run started.
C13_NoValidatorNoSigner ==
    \A p \in DOMAIN run :
      (Reg(p) /\ HasCalled(run[p], "validators") /\ validator = ZeroAddress)
      => /\ run[p].pc = "exit"
         /\ run[p].outcome = "ValidatorNotFound"
         /\ ~HasCalled(run[p], "signTypedData")
         /\ run[p].nAdd = 0
         /\ \A i \in 1..Len(txs) : txs[i].owner # p
         /\ run[p].payload.appSignerAddedAt
              = run[p].before.data.appSignerAddedAt
         /\ File.data.appSignerAddedAt = run[p].before.data.appSignerAddedAt

\* The run registered the fid itself and then found no validator.
C13_Witness ==
    \E p \in DOMAIN run :
      /\ Reg(p) /\ run[p].outcome = "ValidatorNotFound"
      /\ run[p].nReg = 1 /\ File.data.fid # 0
      /\ ~File.data.appSignerAddedAt

\* C14: a register run with --no-signer generates no signer key and leaves
\* the signer fields of the file as they were, makes no KeyGateway or
\* KeyRegistry call, signs nothing, calls add never, and once step 1 is over
\* (fid registered and reported, or found to exist) it ends with success.
C14_NoSignerSkipsStep2 ==
    \A p \in DOMAIN run :
      (Reg(p) /\ run[p].noSigner)
      => /\ Loaded(run[p])
            => SignerFields(run[p].payload) = SignerFields(run[p].before.data)
         /\ SignerFields(File.data) = SignerFields(run[p].before.data)
         /\ ~HasCalled(run[p], "keyRegistry")
         /\ ~HasCalled(run[p], "validators")
         /\ ~HasCalled(run[p], "signTypedData")
         /\ run[p].nAdd = 0
         /\ ( /\ HasPrinted(run[p], "FID") \/ HasPrinted(run[p], "FidExists")
              /\ run[p].pc # "reg_step2" )
            => /\ run[p].pc = "exit" /\ run[p].outcome = "Done"
               /\ HasPrinted(run[p], "SkipSigner")

\* A --no-signer run registered the fid and ended with success on a file
\* that has no signer.
C14_Witness ==
    \E p \in DOMAIN run :
      /\ Reg(p) /\ run[p].noSigner /\ run[p].outcome = "Done"
      /\ run[p].nReg = 1 /\ File.data.fid # 0
      /\ File.data.appSignerPrivateKeyBase64url = 0

\* The run called c1 and called c2 later.
CalledBefore(r, c1, c2) ==
    \E i, j \in 1..Len(r.calls) :
      i < j /\ r.calls[i] = c1 /\ r.calls[j] = c2

\* C20: a register run that has called add read the custody address's fid
\* before that call, and the fid it last read is non-zero; no add transaction
\* in flight names fid 0.
C20_AddOnlyWithFid ==
    /\ \A p \in DOMAIN run :
         (Reg(p) /\ run[p].nAdd > 0)
         => /\ CalledBefore(run[p], "idOf", "add")
            /\ run[p].fid # 0
    /\ \A i \in 1..Len(txs) : txs[i].kind = "add" => txs[i].fid # 0

\* The add transaction of a run that registered the fid itself is in flight.
C20_Witness ==
    \E p \in DOMAIN run :
      /\ Reg(p) /\ run[p].pc = "reg_wait_add"
      /\ run[p].fid0 = 0 /\ run[p].fid # 0 /\ run[p].nAdd = 1

PrivateFields ==
    {"custodyPrivateKey", "recoveryPrivateKey", "appSignerPrivateKeyBase64url"}

\* C15: no line that an init or register run wrote to stdout or stderr
\* carries a private key field (custody, recovery or signer).
C15_OutputHasNoPrivateKey ==
    \A p \in DOMAIN run :
      \A i \in 1..Len(run[p].out) :
        Carries(run[p].out[i]) \cap PrivateFields = {}

\* What the load of a register run makes of a file: the failure the claim
\* names for it, or "none".
C16_Class(c) ==
    IF c.st = "absent" THEN "NotFound"
    ELSE IF c.st \in {"partial", "garbled"} THEN "ParseError"
    ELSE IF \/ c.st = "value"
            \/ c.data.kind # "farcaster-keys"
            \/ c.data.custodyPrivateKey \in {0, NotAString}
            \/ c.data.recoveryPrivateKey \in {0, NotAString}
         THEN "ValidationError"
    ELSE "none"

\* C16: a register run past its load whose secrets file was absent, not
\* well-formed JSON, or a value without the kind, the custody key string or
\* the recovery key string has ended with NotFound, ParseError or
\* ValidationError respectively, with exit status 1; it made no chain call,
\* called neither register nor add, generated no signer key, and the secrets
\* file is what it was.
C16_LoadFailuresHaveNoEffect ==
    \A p \in DOMAIN run :
      ( /\ Reg(p) /\ run[p].pc # "reg_load"
        /\ run[p].outcome # "MissingName"
        /\ C16_Class(run[p].before) # "none" )
      => /\ run[p].pc = "exit" /\ run[p].code = 1
         /\ run[p].outcome = C16_Class(run[p].before)
         /\ run[p].calls = <<>>
         /\ run[p].nReg = 0 /\ run[p].nAdd = 0
         /\ run[p].payload = EmptyPayload
         /\ \A i \in 1..Len(txs) : txs[i].owner # p
         /\ File = run[p].before

\* A record of the right kind that lacks a key string was refused.
C16_Witness ==
    \E p \in DOMAIN run :
      /\ Reg(p) /\ run[p].outcome = "ValidationError"
      /\ run[p].before.st = "full"
      /\ run[p].before.data.kind = "farcaster-keys"
      /\ File = run[p].before

\* C17: while and after an init run on a path that held no file, every file
\* of the secrets write (the temporary file, the secrets file) has mode 0600;
\* and once the run has succeeded the secrets file is a farcaster-keys record
\* with one custody and one recovery private key, their two addresses, which
\* differ, and no fid and no signer field.
C17_InitYieldsOwnerOnlyKeypairs ==
    \A p \in DOMAIN run :
      (run[p].cmd = "init" /\ run[p].before.st = "absent")
      => /\ \A f \in Paths : fs[f].st # "absent" => fs[f].mode = "0600"
         /\ run[p].outcome = "Done"
            => LET d == File.data
               IN  /\ File.st = "full" /\ File.mode = "0600"
                   /\ d.kind = "farcaster-keys"
                   /\ d.custodyPrivateKey \in Addrs
                   /\ d.recoveryPrivateKey \in Addrs
                   /\ d.custodyAddress = AddressOf(d.custodyPrivateKey)
                   /\ d.recoveryAddress = AddressOf(d.recoveryPrivateKey)
                   /\ d.custodyAddress # d.recoveryAddress
                   /\ d = [EmptyPayload EXCEPT
                             !.kind = d.kind, !.name = d.name,
                             !.createdAt = d.createdAt,
                             !.custodyAddress = d.custodyAddress,
                             !.recoveryAddress = d.recoveryAddress,
                             !.custodyPrivateKey = d.custodyPrivateKey,
                             !.recoveryPrivateKey = d.recoveryPrivateKey]

C17_Witness ==
    \E p \in DOMAIN run :
      /\ run[p].cmd = "init" /\ run[p].before.st = "absent"
      /\ run[p].outcome = "Done"
      /\ File.st = "full" /\ File.mode = "0600"

\* C18: a process that has exited has status 0 or 1: 0 exactly when it was
\* asked for help (or given no argument) or its command succeeded (init wrote
\* its record; register reported its last step), and 1 on a usage error
\* and on every error that came out of init or register.
C18_ExitStatus ==
    \A p \in DOMAIN run :
      run[p].pc = "exit"
      => /\ run[p].code \in {0, 1}
         /\ run[p].code = 0 <=> run[p].outcome \in {"Done", "Help"}
         /\ run[p].outcome = "UsageError" => run[p].code = 1
         /\ (run[p].code = 0 /\ run[p].cmd = "init")
            => File = Full(run[p].payload)
         /\ (run[p].code = 0 /\ Reg(p))
            => HasPrinted(run[p], "Done") \/ HasPrinted(run[p], "SkipSigner")
         /\ (run[p].code = 1 /\ run[p].cmd # "usage")
            => HasPrinted(run[p], "Error") \/ HasPrinted(run[p], "ErrorWithValue")

\* A register run failed on the chain and exited 1.
C18_Witness ==
    \E p \in DOMAIN run :
      /\ Reg(p) /\ run[p].pc = "exit" /\ run[p].code = 1
      /\ run[p].outcome = "InsufficientFunds"

\* The value of a flag or variable that counts as given: it has something
\* other than blanks in it.
Given(s) == s \notin {Undefined, "", " "}

\* The flag if given, else the environment variable if given, else the
\* default; blanks around a value are dropped.
InOrder(flag, env, default) ==
    IF Given(flag) THEN Trim(flag)
    ELSE IF Given(env) THEN Trim(env)
    ELSE default

\* C19: the RPC endpoint a register run uses is the flag if given, else the
\* environment variable if set, else the public default, and the id gateway
\* and key gateway addresses it uses are resolved in the same way, whatever
\* the flags and variables hold (nothing, the empty string, blanks, a value).
C19_ResolutionOrder ==
    \A p \in DOMAIN run :
      LET r == run[p]
      IN  /\ r.pc \in {"cfg_gateways", "cfg_keygateway"}
             => r.rpcUrl = InOrder(r.args.rpc, r.env.rpc, DEFAULT_RPC)
          /\ r.pc = "cfg_keygateway"
             => /\ r.idGatewayAddress
                     = InOrder(r.args.idGateway, r.env.idGateway,
                               DEFAULT_ID_GATEWAY)
                /\ r.keyGatewayAddress
                     = InOrder(r.args.keyGateway, r.env.keyGateway,
                               DEFAULT_KEY_GATEWAY)

\* A register transaction for address a that a cancelled run broadcast is
\* outstanding: it is in the pool, not yet mined, and no process holds it.
Outstanding(a) ==
    \E i \in 1..Len(txs) :
      /\ txs[i].kind = "register" /\ txs[i].from = a
      /\ txs[i].st = "pending" /\ txs[i].owner = 0

\* The register transactions for address a in a sequence of transactions.
RegisterTxs(s, a) ==
    {i \in 1..Len(s) : s[i].kind = "register" /\ s[i].from = a}

\* C21: while the register transaction that a cancelled run broadcast for the
\* custody address is outstanding, no step of a later run broadcasts another
\* register transaction for that address.
C21_OutstandingRegisterNotRepeated ==
    [][ \A a \in Addrs :
          Outstanding(a)
          => Cardinality(RegisterTxs(txs', a)) <= Cardinality(RegisterTxs(txs, a))
      ]_vars

\* One step of a running register invocation.
RegStep(p) ==
    \/ FsOpenTmp(p) \/ FsWriteTmp(p) \/ FsRename(p) \/ FsChmod(p)
    \/ RegLoad(p) \/ RegHeader(p) \/ RegGetNetwork(p) \/ RegGetBalance(p)
    \/ RegIdRegistry(p) \/ RegIdOf(p) \/ RegPrice(p) \/ RegSubmit(p)
    \/ RegWait(p) \/ RegReread(p) \/ RegReportFid(p) \/ RegStep2(p)
    \/ RegKeyRegistry(p) \/ RegValidators(p) \/ RegSign(p)
    \/ RegSubmitAdd(p) \/ RegWaitAdd(p) \/ RegPersistAdded(p) \/ RegDone(p)

\* `maelstrom fc register` (no --no-signer, the default name) is invoked, and
\* invoked again until a run reaches Done.
Reinvoke(p) ==
    /\ run[p].outcome # "Done"
    /\ StartRegister(p)
    /\ ~run'[p].noSigner
    /\ run'[p].pc = "reg_load"

\* An invocation other than the last one the bound allows is interrupted: it
\* is killed, or the call it awaits rejects.
Interrupt(p) ==
    /\ cmds < MaxCmds
    /\ Crash(p) \/ ChainFault(p)

\* The identity `init` created, funded, on the expected chain, with a
\* validator in the KeyRegistry.
RetryInit ==
    /\ fs = [f \in Paths |-> IF f = SecretsPath THEN Full(InitPayload(1, 2))
                             ELSE Absent]
    /\ run = [p \in SeqProcs |-> IdleRun]
    /\ cmds = 0
    /\ nextKey = 3
    /\ nextSigner = 1
    /\ now = 0
    /\ chainId = ExpectedChainId
    /\ validator = 1
    /\ price = 1
    /\ idOf = [a \in Addrs |-> 0]
    /\ balance = [a \in Addrs |-> IF a = 1 THEN MaxBal ELSE 0]
    /\ keys = {}
    /\ nextFid = 1
    /\ txs = <<>>

RetryNext ==
    \/ \E p \in SeqProcs : Reinvoke(p)
    \/ \E p \in SeqProcs : RegStep(p)
    \/ \E p \in SeqProcs : Interrupt(p)
    \/ Fund \/ ChainMine \/ ChainConfirm

\* Register is invoked again and again on that identity; its runs may be
\* interrupted, the last one is not; every transaction is mined and confirmed.
RetrySpec ==
    /\ RetryInit
    /\ [][RetryNext]_vars
    /\ WF_vars(\E p \in SeqProcs : Reinvoke(p))
    /\ WF_vars(\E p \in SeqProcs : RegStep(p))
    /\ WF_vars(ChainMine)
    /\ WF_vars(ChainConfirm)

\* A register run was interrupted.
C22_Interrupted ==
    /\ cmds > 0
    /\ run[1].pc = "idle" \/ run[1].outcome = "ChainError"

\* A register run has reached Done, and the file holds the fid of the custody
\* address and the signer-addition timestamp.
C22_Recorded ==
    /\ Reg(1) /\ run[1].pc = "exit" /\ run[1].outcome = "Done"
    /\ File.st = "full"
    /\ File.data.fid # 0 /\ File.data.fid = idOf[Custody(1)]
    /\ File.data.fidRegisteredAt /\ File.data.appSignerAddedAt

\* The invocations of one behaviour are used up on a run that failed.
C22_OutOfRuns ==
    cmds = MaxCmds /\ run[1].pc = "exit" /\ run[1].outcome # "Done"

\* C22: after a register run was interrupted, invoking register again (and
\* again, as long as no run has reached Done) leads to a run that reaches
\* Done with the fid and the signer-addition timestamp in the secrets file.
C22_RetryReachesDone == C22_Interrupted ~> (C22_Recorded \/ C22_OutOfRuns)

\* How many times the run called c.
TimesCalled(r, c) == Cardinality({i \in 1..Len(r.calls) : r.calls[i] = c})

\* The run's register transaction was confirmed and its second read of the
\* custody address's fid returned 0.
C23_Case(p) ==
    /\ Reg(p) /\ run[p].regConfs >= Confirmations
    /\ TimesCalled(run[p], "idOf") > 1
    /\ run[p].fid = 0

\* C23: a register run whose fid re-read after its confirmed register
\* transaction returned 0 has ended with RegistrationInconsistency and exit
\* status 1: the re-read is the last call it made, it called register once
\* and add never, it has no transaction in flight, and the fid in its payload
\* and in the secrets file is the one the file held when the run started.
C23_InconsistencyIsFatal ==
    \A p \in DOMAIN run :
      C23_Case(p)
      => /\ run[p].pc = "exit" /\ run[p].code = 1
         /\ run[p].outcome = "RegistrationInconsistency"
         /\ run[p].calls[Len(run[p].calls)] = "idOf"
         /\ run[p].nReg = 1 /\ run[p].nAdd = 0
         /\ ~HasCalled(run[p], "signTypedData")
         /\ \A i \in 1..Len(txs) : txs[i].owner # p
         /\ run[p].payload.fid = run[p].before.data.fid
         /\ run[p].payload.fidRegisteredAt = run[p].before.data.fidRegisteredAt
         /\ File.data.fid = run[p].before.data.fid
         /\ File.data.fidRegisteredAt = run[p].before.data.fidRegisteredAt

C23_Witness ==
    \E p \in DOMAIN run :
      /\ C23_Case(p) /\ run[p].outcome = "RegistrationInconsistency"
      /\ ~run[p].noSigner /\ File.data.fid = 0

\* Register runs on the identity `init` created, re-invoked until one reaches
\* Done, while time passes.
TimedNext ==
    \/ \E p \in SeqProcs : Reinvoke(p)
    \/ \E p \in SeqProcs : RegStep(p)
    \/ \E p \in SeqProcs : Interrupt(p)
    \/ Fund \/ ChainMine \/ ChainConfirm \/ Tick

TimedSpec == RetryInit /\ [][TimedNext]_vars

\* The request was signed in the current invocation, for the fid and the
\* custody address of run p, with a deadline one hour after its signing time.
C24_SignedInThisRun(p, m) ==
    /\ m.signedIn = cmds
    /\ m.deadline = m.signedAt + Hour
    /\ m.requestFid = run[p].fid
    /\ m.requestSigner = Custody(p)
    /\ m.key = run[p].payload.appSignerPublicKeyBase64url

\* C24: the request a register run holds is none or one it signed itself; a
\* run that has called add did so with a request it signed itself, before the
\* call, with a deadline one hour after the signing time, and the add
\* transaction a run waits on carries that request; every add transaction in
\* flight carries a request with a deadline one hour after its signing time;
\* no payload and no file has a field for the request; and a run that called
\* add after the deadline of its request has ended with the chain's rejection
\* of the call (exit status 1), has no transaction in flight, and left the
\* signer-addition timestamp of its payload and of the file as it was.
C24_RequestSignedPerRun ==
    /\ \A p \in DOMAIN run :
         Reg(p) =>
           /\ run[p].request = NoRequest \/ C24_SignedInThisRun(p, run[p].request)
           /\ DOMAIN run[p].payload = DOMAIN EmptyPayload
           /\ run[p].nAdd > 0
              => /\ C24_SignedInThisRun(p, run[p].request)
                 /\ run[p].request.signedAt <= run[p].addAt
                 /\ CalledBefore(run[p], "signTypedData", "add")
           /\ \A i \in 1..Len(txs) :
                (txs[i].owner = p /\ txs[i].kind = "add")
                => txs[i].metadata = run[p].request
           /\ (run[p].nAdd > 0 /\ run[p].addAt > run[p].request.deadline)
              => /\ run[p].pc = "exit" /\ run[p].code = 1
                 /\ run[p].outcome = "ChainError"
                 /\ \A i \in 1..Len(txs) : txs[i].owner # p
                 /\ run[p].payload.appSignerAddedAt
                      = run[p].before.data.appSignerAddedAt
                 /\ File.data.appSignerAddedAt
                      = run[p].before.data.appSignerAddedAt
    /\ \A i \in 1..Len(txs) :
         txs[i].kind = "add"
         => /\ txs[i].metadata.deadline = txs[i].metadata.signedAt + Hour
            /\ txs[i].metadata.signedIn \in 1..cmds
    /\ \A f \in Paths : DOMAIN fs[f].data = DOMAIN EmptyPayload

\* A run called add more than an hour after it had signed its request.
C24_Witness ==
    \E p \in DOMAIN run :
      /\ Reg(p) /\ run[p].nAdd = 1
      /\ run[p].addAt > run[p].request.deadline
      /\ run[p].outcome = "ChainError"
      /\ ~File.data.appSignerAddedAt

\* `maelstrom fc register` is invoked in a process that has not run yet.
RaceStart(p) ==
    /\ run[p].pc = "idle"
    /\ StartRegister(p)
    /\ run'[p].pc = "reg_load"

\* The identity `init` created, funded, and two processes.
RaceInit ==
    /\ fs = [f \in Paths |-> IF f = SecretsPath THEN Full(InitPayload(1, 2))
                             ELSE Absent]
    /\ run = [p \in Procs |-> IdleRun]
    /\ cmds = 0
    /\ nextKey = 3
    /\ nextSigner = 1
    /\ now = 0
    /\ chainId = ExpectedChainId
    /\ validator = 1
    /\ price = 1
    /\ idOf = [a \in Addrs |-> 0]
    /\ balance = [a \in Addrs |-> IF a = 1 THEN MaxBal ELSE 0]
    /\ keys = {}
    /\ nextFid = 1
    /\ txs = <<>>

RaceNext ==
    \/ \E p \in Procs : RaceStart(p)
    \/ \E p \in Procs : RegStep(p)
    \/ ChainMine \/ ChainConfirm

\* Two register runs on one secrets path, each in a process of its own, in
\* any interleaving of their steps.
RaceSpec == RaceInit /\ [][RaceNext]_vars

\* The run registered the fid itself and has read it back.
C25_OwnFid(r) ==
    r.nReg > 0 /\ r.regConfs >= Confirmations /\ r.fid # 0
    /\ r.ret \in {"reg_report_fid", "reg_done"}

\* The record run r loaded, with the facts r itself has established at the
\* time of a write that returns to r.ret: the signer key it generated, the
\* fid it registered, the signer-addition timestamp.
C25_OwnRecord(r) ==
    LET b == r.before.data
        s == IF GeneratesSigner(r.noSigner, b)
             THEN WithSigner(b, r.payload.appSignerPublicKeyBase64url)
             ELSE b
        f == IF C25_OwnFid(r) THEN WithFid(s, r.fid) ELSE s
    IN  IF r.ret = "reg_done" THEN WithAddedAt(f) ELSE f

\* C25: the rename of every write of a register run takes place whatever the
\* secrets file holds and whatever the other run does (nothing is locked and
\* nothing is read again), and puts in its place the record the run loaded at
\* its start with the facts that run itself established, and nothing else.
C25_WritesBackOwnRecord ==
    [][ \A p \in DOMAIN run :
          (Reg(p) /\ run[p].pc = "w_rename" /\ run'[p].pc = "w_chmod")
          => /\ File'.st = "full"
             /\ File'.data = C25_OwnRecord(run[p]) ]_vars

\* One run registered the fid, wrote it to the secrets file and reported it;
\* the other run, which had loaded the file before, wrote its record: the
\* file has no fid, and the signer key of the first run is replaced.
C25_Witness ==
    \E p, q \in DOMAIN run :
      /\ p # q /\ Reg(p) /\ Reg(q)
      /\ HasPrinted(run[p], "FID") /\ run[p].payload.fid # 0
      /\ run[q].outcome = "Done"
      /\ File.st = "full" /\ File.data.fid = 0
      /\ hasSigner(run[p].payload)
      /\ SignerFields(File.data) # SignerFields(run[p].payload)

\* No transaction of the run has been confirmed yet.
C26_Unconfirmed(r) ==
    r.regConfs < Confirmations /\ r.addConfs < Confirmations

\* Record d is record b with a signer key added, and nothing else changed.
C26_SignerAdded(b, d) ==
    /\ d.appSignerPublicKeyBase64url # 0
    /\ d = WithSigner(b, d.appSignerPublicKeyBase64url)

\* C26: while no transaction of a register run has been confirmed, the
\* secrets file is what the run found, or (only when --no-signer was not
\* given and the record it found had no signer) that record with the signer
\* key fields added: kind, name, creation time, custody and recovery fields,
\* fid fields and signer-addition timestamp are as they were; and a
\* --no-signer run that has failed without calling register or add has left
\* the file as it was.
C26_OnlySignerBeforeConfirmation ==
    \A p \in DOMAIN run :
      Reg(p) =>
        LET r == run[p]
            b == run[p].before
        IN  /\ C26_Unconfirmed(r)
               => \/ File = b
                  \/ /\ ~r.noSigner /\ Loaded(r)
                     /\ b.st = "full" /\ ~hasSigner(b.data)
                     /\ File.st = "full"
                     /\ C26_SignerAdded(b.data, File.data)
            /\ ( /\ r.noSigner /\ r.pc = "exit" /\ r.code = 1
                 /\ r.nReg = 0 /\ r.nAdd = 0 )
               => File = b

\* The register transaction of a run is broadcast and not yet confirmed, and
\* the file is the record the run found plus the signer key it generated.
C26_Witness ==
    \E p \in DOMAIN run :
      /\ Reg(p) /\ run[p].pc = "reg_wait" /\ C26_Unconfirmed(run[p])
      /\ File # run[p].before
      /\ C26_SignerAdded(run[p].before.data, File.data)
====
